---- MODULE Spec2Model ----
(***************************************************************************)
(* A model of the pollable-file / waiter core of occlum:                   *)
(*   - async-rt  wait/waiter.rs   : Waiter, Waker, WaiterInner, WaitFuture *)
(*   - async-io  file/pollable.rs : PollableFile, Async<T>                 *)
(* Pollee and Poller (crate::poll) are not part of the sources at hand;    *)
(* they are modelled from their description in the specification.          *)
(*                                                                         *)
(* Four state machines share the waiter operators:                         *)
(*   SpecWaiter : one Waiter, its WaitFutures, cloned Wakers and reset().  *)
(*   SpecPollee : one Pollee and the Pollers subscribing to it.            *)
(*   Spec       : tasks running Async::read/readv/write/writev on one      *)
(*                file, the file's Pollee and the environment.             *)
(*   SpecLive   : Spec restricted to the readiness-edge scenario, with the *)
(*                fairness of the cooperative scheduler.                   *)
(***************************************************************************)
EXTENDS Integers, Sequences, FiniteSets, TLC

\* ------------------------------------------------------------------ bounds
NumFutures == 2      \* WaitFutures created from the one Waiter
NumWakers  == 2      \* cloned Wakers, each used by its own thread
NumHandles == 2      \* distinct runtime wakers the executor may hand to a poll
NumTasks   == 1      \* tasks calling the Async wrapper on the same file
NumPollers == 2      \* Pollers subscribing to the one Pollee
MaxIoCalls == 2      \* inner I/O calls counted per Async call
MaxDuration == 2     \* longest duration, in ticks, passed to wait_timeout
MaxVecLen == 3       \* buffers in the vector passed to readv / writev
MaxBufLen == 2       \* bytes in one buffer of the vector

Futures == 1..NumFutures
Wakers  == 1..NumWakers
Handles == 1..NumHandles
Tasks   == 1..NumTasks
Pollers == 1..NumPollers

\* ------------------------------------------------------------ Option<T>
None    == <<>>
Some(x) == <<x>>
IsSome(o) == o # None
Unwrap(o) == o[1]

\* ------------------------------------------------------------ WaiterState
Idle    == "Idle"
Waiting == "Waiting"
Woken   == "Woken"
WaiterState == {Idle, Waiting, Woken}

\* Poll<()>
Pending == "Pending"
Ready   == "Ready"

(***************************************************************************)
(* WaiterInner: the atomic state and the mutex-guarded raw-waker slot.     *)
(***************************************************************************)
WaiterInner_new == [state |-> Idle, raw_waker |-> None]

\* Waiter::reset: a relaxed store of Idle; the raw-waker slot is not touched
\* and the raw-waker mutex is not taken.
Waiter_reset(w) == [w EXCEPT !.state = Idle]

\* WaiterInner::wake, the part after `match self.state()`: obs is the state
\* the match observed.  The result is the waiter afterwards.
WakeIdleForgetsStore(obs, w) ==
    CASE obs = Idle    -> w
      [] obs = Waiting -> [state |-> Woken, raw_waker |-> None]
      [] obs = Woken   -> w

WaiterInner_wake(obs, w) ==
    CASE obs = Idle    -> [w EXCEPT !.state = Woken]
      [] obs = Waiting -> [state |-> Woken, raw_waker |-> None]
      [] obs = Woken   -> w

\* The value wake() returns: Some(()) or None ("already woken").
WakeAlwaysSome(obs) == "Some"

WaiterInner_wake_ret(obs) == IF obs = Woken THEN "None" ELSE "Some"

\* The runtime waker wake() invokes: raw_waker.take().unwrap() in the Waiting
\* arm, nothing in the other arms.
WaiterInner_wake_invokes(obs, w) == IF obs = Waiting THEN w.raw_waker ELSE None

\* raw_waker.take().unwrap() panics on an empty slot.
WaiterInner_wake_panics(obs, w) == obs = Waiting /\ w.raw_waker = None

\* WaitFuture::poll with the context's waker cx; the whole body runs under
\* the raw-waker mutex.
PollConsumesWake(w, cx) ==
    CASE w.state = Idle    -> [state |-> Waiting, raw_waker |-> Some(cx)]
      [] w.state = Waiting -> [w EXCEPT !.raw_waker = Some(cx)]
      [] w.state = Woken   -> [w EXCEPT !.state = Idle]

PollKeepsFirstWaker(w, cx) ==
    IF w.state = Idle THEN [state |-> Waiting, raw_waker |-> Some(cx)] ELSE w

WaitFuture_poll(w, cx) ==
    CASE w.state = Idle    -> [state |-> Waiting, raw_waker |-> Some(cx)]
      [] w.state = Waiting -> [w EXCEPT !.raw_waker = Some(cx)]
      [] w.state = Woken   -> w

WaitFuture_poll_ret(w) == IF w.state = Woken THEN Ready ELSE Pending

\* debug_assert!(raw_waker.is_none()) in the Woken arm.
WaitFuture_poll_assert_fails(w) == w.state = Woken /\ w.raw_waker # None

\* Drop for WaitFuture.
DropKeepsWaker(w) ==
    IF w.state = Waiting THEN [w EXCEPT !.state = Idle] ELSE w

WaitFuture_drop(w) ==
    IF w.state = Waiting THEN [state |-> Idle, raw_waker |-> None] ELSE w


(***************************************************************************)
(* State of the Waiter machine.                                            *)
(***************************************************************************)
VARIABLES
    waiter,        \* the WaiterInner: [state, raw_waker]
    fut,           \* fut[f]: life of WaitFuture f: none, new, pending, ready
    mutex,         \* holder of the raw-waker mutex: 0 (free) or a Waker thread
    wk_obs,        \* wk_obs[k]: the state wake() matched on, while k is in wake()
    wokenBy,       \* the arm taken by the successful wake since the last reset, or "no"
    invokedCount,  \* runtime-waker invocations since the last reset
    cancelled,     \* a WaitFuture was dropped while Waiting and none polled since
    panicked,      \* "none", or the assertion / unwrap that failed
    lastOp,        \* the last completed operation, what it saw and returned
    polls          \* last: the waker of the latest Pending poll not yet invoked;
                   \* prev: the waker that poll replaced in the slot

wvars == <<waiter, fut, mutex, wk_obs, wokenBy, invokedCount,
           cancelled, panicked, lastOp, polls>>

(* State of the file, its Pollee and the tasks calling the Async wrapper. *)
VARIABLES
    flags,      \* the file's status flags
    events,     \* the Pollee's current event mask
    subs,       \* the Pollee's subscriber list: pairs <<poller owner, mask>>
    inner,      \* inner[e]: the results the file may give to an I/O call in direction e
    pc,         \* pc[t]: where task t is in its Async call
    op,         \* op[t]: the call t is making
    entry_nb,   \* O_NONBLOCK was in the status flags when t entered the call
    is_nb,      \* the local `is_nonblocking` of t's call
    res,        \* the local `res` of t's call: the last inner result
    ret,        \* what the call returned to t
    poller,     \* the local `poller` of t's call: None or Some(its Waiter)
    sched,      \* t's runtime waker was invoked and t has not been polled since
    ioCalls,    \* inner I/O calls t's call has made
    npollers,   \* Pollers t's call has created
    suspended,  \* t's call has returned Pending at least once
    lastEdge    \* the pollers the last add_events woke, until the next Pollee operation

avars == <<flags, events, subs, inner, pc, op, entry_nb, is_nb, res, ret,
           poller, sched, ioCalls, npollers, suspended, lastEdge>>

(* State of a wait_timeout(Some(d)) call on the Waiter. *)
VARIABLES
    tw_pc,      \* where the call is: idle, wait, timer, pending, ok, timedout
    t_orig,     \* the duration d the caller passed
    t_dur,      \* the caller's duration `*t`
    t_remain,   \* the remaining duration of the call's timer_entry
    t_writes,   \* writes the call has made to `*t`
    t_early     \* the Waiter was Woken at the moment the timer expired

tvars == <<tw_pc, t_orig, t_dur, t_remain, t_writes, t_early>>

(* State of a SocketFile and of the inner socket it wraps. *)
VARIABLES
    sock,       \* the AnySocket variant the SocketFile holds
    peer,       \* the address the inner socket is connected to, or None
    s_last      \* the last SocketFile call: its arguments, its result and
                \* the call it made on the inner socket, if any

svars == <<sock, peer, s_last>>

(* State of a call of the default PollableFile::readv / writev. *)
VARIABLES
    v_bufs,     \* the vector: the length of each buffer, in order
    v_last      \* the last call: what the scalar call answered, the scalar
                \* calls made (index of the buffer passed) and the result

vvars == <<v_bufs, v_last>>

ovars == <<tvars, svars, vvars>>

vars == <<wvars, avars, ovars>>

\* The runtime waker handed to a poll of future f: the task owning f,
\* reached through handle h.
RawWaker(f, h) == <<f, h>>

NoOp == [op |-> "init", pre |-> Idle, ret |-> "-", invoked |-> None]

NoPolls == [last |-> None, prev |-> None]

WaiterInit ==
    /\ waiter = WaiterInner_new
    /\ fut = [f \in Futures |-> "none"]
    /\ mutex = 0
    /\ wk_obs = [k \in Wakers |-> "-"]
    /\ wokenBy = "no"
    /\ invokedCount = 0
    /\ cancelled = FALSE
    /\ panicked = "none"
    /\ lastOp = NoOp
    /\ polls = NoPolls

\* WaiterInner::wait: WaitFuture::new(self).
WaiterInner_wait(f) ==
    /\ fut[f] = "none"
    /\ fut' = [fut EXCEPT ![f] = "new"]
    /\ lastOp' = [op |-> "new", pre |-> waiter.state, ret |-> "-", invoked |-> None]
    /\ UNCHANGED <<avars, ovars>>
    /\ UNCHANGED <<waiter, mutex, wk_obs, wokenBy, invokedCount,
                   cancelled, panicked, polls>>

\* WaitFuture::poll of future f with the context waker RawWaker(f, h).  It
\* takes the raw-waker mutex for its whole body; reset() stores only the
\* state, which poll has read by then, so the body is one step.
Poll(f, h) ==
    /\ fut[f] \in {"new", "pending"}
    /\ mutex = 0
    /\ waiter' = WaitFuture_poll(waiter, RawWaker(f, h))
    /\ fut' = [fut EXCEPT ![f] =
                 IF WaitFuture_poll_ret(waiter) = Ready THEN "ready" ELSE "pending"]
    /\ panicked' = IF WaitFuture_poll_assert_fails(waiter) THEN "assert" ELSE panicked
    /\ cancelled' = FALSE
    /\ lastOp' = [op |-> "poll", pre |-> waiter.state,
                  ret |-> WaitFuture_poll_ret(waiter), invoked |-> None]
    /\ polls' = IF WaitFuture_poll_ret(waiter) = Ready THEN polls
                ELSE [last |-> Some(RawWaker(f, h)),
                      prev |-> IF waiter.state = Waiting
                               THEN waiter.raw_waker ELSE None]
    /\ UNCHANGED <<avars, ovars>>
    /\ UNCHANGED <<mutex, wk_obs, wokenBy, invokedCount>>

\* Drop of WaitFuture f, polled or not, completed or not.
Drop(f) ==
    /\ fut[f] # "none"
    /\ mutex = 0
    /\ waiter' = WaitFuture_drop(waiter)
    /\ fut' = [fut EXCEPT ![f] = "none"]
    /\ cancelled' = (cancelled \/ waiter.state = Waiting)
    /\ lastOp' = [op |-> "drop", pre |-> waiter.state, ret |-> fut[f], invoked |-> None]
    /\ polls' = NoPolls
    /\ UNCHANGED <<avars, ovars>>
    /\ UNCHANGED <<mutex, wk_obs, wokenBy, invokedCount, panicked>>

\* Waker::wake -> WaiterInner::wake, first half: lock the raw-waker mutex and
\* read the state.
WakeBegin(k) ==
    /\ mutex = 0
    /\ mutex' = k
    /\ wk_obs' = [wk_obs EXCEPT ![k] = waiter.state]
    /\ UNCHANGED <<avars, ovars>>
    /\ UNCHANGED <<waiter, fut, wokenBy, invokedCount, cancelled,
                   panicked, lastOp, polls>>

\* Second half: the matched arm, then the mutex is released and wake returns.
WakeEnd(k) ==
    /\ mutex = k
    /\ waiter' = IF WaiterInner_wake_panics(wk_obs[k], waiter)
                 THEN waiter ELSE WaiterInner_wake(wk_obs[k], waiter)
    /\ panicked' = IF WaiterInner_wake_panics(wk_obs[k], waiter)
                   THEN "unwrap" ELSE panicked
    /\ wokenBy' = IF WaiterInner_wake_ret(wk_obs[k]) = "Some" THEN wk_obs[k] ELSE wokenBy
    /\ invokedCount' = IF IsSome(WaiterInner_wake_invokes(wk_obs[k], waiter))
                       THEN invokedCount + 1 ELSE invokedCount
    /\ lastOp' = [op |-> "wake", pre |-> wk_obs[k],
                  ret |-> WaiterInner_wake_ret(wk_obs[k]),
                  invoked |-> WaiterInner_wake_invokes(wk_obs[k], waiter)]
    /\ polls' = IF IsSome(WaiterInner_wake_invokes(wk_obs[k], waiter))
                THEN [polls EXCEPT !.last = None] ELSE polls
    /\ mutex' = 0
    /\ wk_obs' = [wk_obs EXCEPT ![k] = "-"]
    /\ UNCHANGED <<avars, ovars>>
    /\ UNCHANGED <<fut, cancelled>>

\* Waiter::reset: no mutex, callable at any point, also inside another
\* thread's wake().
Reset ==
    /\ waiter' = Waiter_reset(waiter)
    /\ wokenBy' = "no"
    /\ invokedCount' = 0
    /\ lastOp' = [op |-> "reset", pre |-> waiter.state, ret |-> "-", invoked |-> None]
    /\ UNCHANGED <<avars, ovars>>
    /\ UNCHANGED <<fut, mutex, wk_obs, cancelled, panicked, polls>>


WaiterNext ==
    \/ \E f \in Futures : WaiterInner_wait(f)
    \/ \E f \in Futures, h \in Handles : Poll(f, h)
    \/ \E f \in Futures : Drop(f)
    \/ \E k \in Wakers : WakeBegin(k)
    \/ \E k \in Wakers : WakeEnd(k)
    \/ Reset

(***************************************************************************)
(* Waiter::wait_timeout(Some(d)): a WaitFuture raced with a timer, the     *)
(* WaitFuture polled first in every poll.                                  *)
(***************************************************************************)
\* TimerEntry::new(d): the timer starts with d to run.
TimerEntry_new(d) == d

\* TimerEntry::remained_duration.
TimerEntry_remained_duration(remain) == remain

\* TimerFutureEntry::poll: Ready once the timer has expired.
TimerFutureEntry_poll(remain) == IF remain = 0 THEN Ready ELSE Pending

InCall == {"wait", "timer", "pending"}

TimeoutInit ==
    /\ tw_pc = "idle"
    /\ t_orig = 0
    /\ t_dur = 0
    /\ t_remain = 0
    /\ t_writes = 0
    /\ t_early = FALSE

\* The call and the start of its first poll: the timer entry is created.
WaitTimeout(d) ==
    /\ tw_pc = "idle"
    /\ tw_pc' = "wait"
    /\ t_orig' = d
    /\ t_dur' = d
    /\ t_remain' = TimerEntry_new(d)
    /\ t_writes' = 0
    /\ t_early' = (TimerEntry_new(d) = 0 /\ waiter.state = Woken)
    /\ UNCHANGED <<wvars, avars, svars, vvars>>

TimeoutPollTimerFirst ==
    /\ tw_pc = "wait"
    /\ mutex = 0
    /\ IF TimerFutureEntry_poll(t_remain) = Ready
       THEN /\ t_dur' = 0
            /\ t_writes' = t_writes + 1
            /\ tw_pc' = "timedout"
            /\ UNCHANGED waiter
       ELSE IF WaitFuture_poll_ret(waiter) = Ready
       THEN /\ waiter' = WaitFuture_drop(WaitFuture_poll(waiter, RawWaker(1, 1)))
            /\ t_dur' = TimerEntry_remained_duration(t_remain)
            /\ t_writes' = t_writes + 1
            /\ tw_pc' = "ok"
       ELSE /\ waiter' = WaitFuture_poll(waiter, RawWaker(1, 1))
            /\ tw_pc' = "timer"
            /\ UNCHANGED <<t_dur, t_writes>>
    /\ UNCHANGED <<t_orig, t_remain, t_early>>
    /\ UNCHANGED <<fut, mutex, wk_obs, wokenBy, invokedCount, cancelled,
                   panicked, lastOp, polls>>
    /\ UNCHANGED <<avars, svars, vvars>>

WaitArmKeepsDuration ==
    /\ tw_pc = "wait"
    /\ mutex = 0
    /\ IF WaitFuture_poll_ret(waiter) = Ready
       THEN /\ waiter' = WaitFuture_drop(WaitFuture_poll(waiter, RawWaker(1, 1)))
            /\ tw_pc' = "ok"
       ELSE /\ waiter' = WaitFuture_poll(waiter, RawWaker(1, 1))
            /\ tw_pc' = "timer"
    /\ UNCHANGED <<t_orig, t_dur, t_remain, t_writes, t_early>>
    /\ UNCHANGED <<fut, mutex, wk_obs, wokenBy, invokedCount, cancelled,
                   panicked, lastOp, polls>>
    /\ UNCHANGED <<avars, svars, vvars>>

\* First arm of select_biased!: the WaitFuture is polled with the task's
\* waker; Ready writes the timer's remaining duration and the call returns Ok.
TimeoutPollWait ==
    /\ tw_pc = "wait"
    /\ mutex = 0
    /\ IF WaitFuture_poll_ret(waiter) = Ready
       THEN /\ waiter' = WaitFuture_drop(WaitFuture_poll(waiter, RawWaker(1, 1)))
            /\ t_dur' = TimerEntry_remained_duration(t_remain)
            /\ t_writes' = t_writes + 1
            /\ tw_pc' = "ok"
       ELSE /\ waiter' = WaitFuture_poll(waiter, RawWaker(1, 1))
            /\ tw_pc' = "timer"
            /\ UNCHANGED <<t_dur, t_writes>>
    /\ UNCHANGED <<t_orig, t_remain, t_early>>
    /\ UNCHANGED <<fut, mutex, wk_obs, wokenBy, invokedCount, cancelled,
                   panicked, lastOp, polls>>
    /\ UNCHANGED <<avars, svars, vvars>>

\* Second arm, reached in the same poll when the WaitFuture was Pending: the
\* timer future is polled; Ready zeroes the duration, the call returns
\* ETIMEDOUT and its WaitFuture is dropped; Pending suspends the call.
TimeoutPollTimer ==
    /\ tw_pc = "timer"
    /\ IF TimerFutureEntry_poll(t_remain) = Ready
       THEN /\ mutex = 0
            /\ waiter' = WaitFuture_drop(waiter)
            /\ t_dur' = 0
            /\ t_writes' = t_writes + 1
            /\ tw_pc' = "timedout"
       ELSE /\ tw_pc' = "pending"
            /\ UNCHANGED <<waiter, t_dur, t_writes>>
    /\ UNCHANGED <<t_orig, t_remain, t_early>>
    /\ UNCHANGED <<fut, mutex, wk_obs, wokenBy, invokedCount, cancelled,
                   panicked, lastOp, polls>>
    /\ UNCHANGED <<avars, svars, vvars>>

\* The executor polls the suspended call again.
TimeoutRepoll ==
    /\ tw_pc = "pending"
    /\ tw_pc' = "wait"
    /\ UNCHANGED <<t_orig, t_dur, t_remain, t_writes, t_early>>
    /\ UNCHANGED <<wvars, avars, svars, vvars>>

\* The caller has the result of the call and may call again.
TimeoutReturn ==
    /\ tw_pc \in {"ok", "timedout"}
    /\ tw_pc' = "idle"
    /\ t_orig' = 0
    /\ t_dur' = 0
    /\ t_remain' = 0
    /\ t_writes' = 0
    /\ t_early' = FALSE
    /\ UNCHANGED <<wvars, avars, svars, vvars>>

\* Time passes while the call is in progress.
Tick ==
    /\ tw_pc \in InCall
    /\ t_remain > 0
    /\ t_remain' = t_remain - 1
    /\ t_early' = (t_remain = 1 /\ waiter.state = Woken)
    /\ UNCHANGED <<tw_pc, t_orig, t_dur, t_writes>>
    /\ UNCHANGED <<wvars, avars, svars, vvars>>

\* reset() by the caller between two calls.
TimeoutReset == tw_pc = "idle" /\ Reset

NextTimeout ==
    \/ \E d \in 0..MaxDuration : WaitTimeout(d)
    \/ TimeoutPollWait
    \/ TimeoutPollTimer
    \/ TimeoutRepoll
    \/ TimeoutReturn
    \/ Tick
    \/ \E k \in Wakers : WakeBegin(k)
    \/ \E k \in Wakers : WakeEnd(k)
    \/ TimeoutReset

(***************************************************************************)
(* SocketFile: the adapter over the four socket variants.                  *)
(***************************************************************************)
Ipv4Stream   == "Ipv4Stream"
UnixStream   == "UnixStream"
Ipv4Datagram == "Ipv4Datagram"
UnixDatagram == "UnixDatagram"
AnySocket == {Ipv4Stream, UnixStream, Ipv4Datagram, UnixDatagram}

EINVAL == "EINVAL"

\* AnyAddr: the unspecified address, two IPv4 and two Unix addresses.
Unspec == "Unspec"
Ipv4Addrs == {"Ipv4:a", "Ipv4:b"}
UnixAddrs == {"Unix:a", "Unix:b"}
AnyAddr == {Unspec} \cup Ipv4Addrs \cup UnixAddrs

\* A Result: Ok with a value, or Err with an errno.
OkOf(v) == <<"Ok", v>>
Err(e) == <<"Err", e>>
IsOk(r) == r[1] = "Ok"

\* AnyAddr::is_unspec, to_ipv4, to_unix: the conversions yield the typed
\* address of an address of their family and an error for any other.
AnyAddr_is_unspec(addr) == addr = Unspec
AnyAddr_to_ipv4(addr) == IF addr \in Ipv4Addrs THEN OkOf(addr) ELSE Err("EAFNOSUPPORT")
AnyAddr_to_unix(addr) == IF addr \in UnixAddrs THEN OkOf(addr) ELSE Err("EAFNOSUPPORT")

\* What the inner sockets may answer.
InnerConnectResults  == {OkOf("()"), Err("ECONNREFUSED")}
InnerListenResults   == {OkOf("()"), Err("EADDRINUSE")}
InnerAcceptResults   == {OkOf("accepted"), Err("EAGAIN")}
InnerShutdownResults == {OkOf("()"), Err("ENOTCONN")}
Backlogs == {0, 128}
Shutdown == {"Read", "Write", "Both"}

\* The outcome of a SocketFile call: what it returns and the call it made on
\* the inner socket (None: no call).
Outcome(r, call) == [ret |-> r, inner |-> call]
InnerCall(s, name, arg) == Some(<<s, name, arg>>)

ConnectAlwaysConverts(s, addr, r) ==
    LET conv == IF s \in {Ipv4Stream, Ipv4Datagram}
                THEN AnyAddr_to_ipv4(addr) ELSE AnyAddr_to_unix(addr)
    IN  IF IsOk(conv)
        THEN Outcome(r, InnerCall(s, "connect",
                 IF s \in {Ipv4Stream, UnixStream} THEN conv[2] ELSE Some(conv[2])))
        ELSE Outcome(conv, None)

\* SocketFile::connect; r is the answer of the inner connect, if it is called.
SocketFile_connect(s, addr, r) ==
    CASE s = Ipv4Stream ->
           LET ip_addr == AnyAddr_to_ipv4(addr) IN
             IF IsOk(ip_addr) THEN Outcome(r, InnerCall(s, "connect", ip_addr[2]))
             ELSE Outcome(ip_addr, None)
      [] s = UnixStream ->
           LET unix_addr == AnyAddr_to_unix(addr) IN
             IF IsOk(unix_addr) THEN Outcome(r, InnerCall(s, "connect", unix_addr[2]))
             ELSE Outcome(unix_addr, None)
      [] s = Ipv4Datagram ->
           IF AnyAddr_is_unspec(addr) THEN Outcome(r, InnerCall(s, "connect", None))
           ELSE LET ip_addr == AnyAddr_to_ipv4(addr) IN
             IF IsOk(ip_addr) THEN Outcome(r, InnerCall(s, "connect", Some(ip_addr[2])))
             ELSE Outcome(ip_addr, None)
      [] s = UnixDatagram ->
           IF AnyAddr_is_unspec(addr) THEN Outcome(r, InnerCall(s, "connect", None))
           ELSE LET unix_addr == AnyAddr_to_unix(addr) IN
             IF IsOk(unix_addr) THEN Outcome(r, InnerCall(s, "connect", Some(unix_addr[2])))
             ELSE Outcome(unix_addr, None)

\* SocketFile::listen.
SocketFile_listen(s, backlog, r) ==
    CASE s = Ipv4Stream -> Outcome(r, InnerCall(s, "listen", backlog))
      [] s = UnixStream -> Outcome(r, InnerCall(s, "listen", backlog))
      [] OTHER -> Outcome(Err(EINVAL), None)

\* SocketFile::accept: an accepted inner stream is wrapped in a SocketFile of
\* the same variant; an error of the inner accept is returned as it is.
SocketFile_accept(s, nonblocking, r) ==
    CASE s = Ipv4Stream ->
           Outcome(IF IsOk(r) THEN OkOf(<<Ipv4Stream, r[2]>>) ELSE r,
                   InnerCall(s, "accept", nonblocking))
      [] s = UnixStream ->
           Outcome(IF IsOk(r) THEN OkOf(<<UnixStream, r[2]>>) ELSE r,
                   InnerCall(s, "accept", nonblocking))
      [] OTHER -> Outcome(Err(EINVAL), None)

ShutdownDispatchesAll(s, how, r) == Outcome(r, InnerCall(s, "shutdown", how))

\* SocketFile::shutdown.
SocketFile_shutdown(s, how, r) ==
    CASE s = Ipv4Stream -> Outcome(r, InnerCall(s, "shutdown", how))
      [] s = UnixStream -> Outcome(r, InnerCall(s, "shutdown", how))
      [] OTHER -> Outcome(Err(EINVAL), None)

NoCall == [op |-> "none", arg |-> "-", given |-> "-", ret |-> "-", inner |-> None]

Called(name, arg, r, out) ==
    [op |-> name, arg |-> arg, given |-> r, ret |-> out.ret, inner |-> out.inner]

SocketInit ==
    /\ sock = Ipv4Stream
    /\ peer = None
    /\ s_last = NoCall

\* A connect call; a successful inner connect sets or clears the peer.
Connect(addr) ==
    \E r \in InnerConnectResults :
        LET out == SocketFile_connect(sock, addr, r) IN
          /\ s_last' = Called("connect", addr, r, out)
          /\ peer' = IF IsSome(out.inner) /\ IsOk(r)
                     THEN (IF AnyAddr_is_unspec(addr) THEN None ELSE Some(addr))
                     ELSE peer
          /\ UNCHANGED <<sock, wvars, avars, tvars, vvars>>

Listen(backlog) ==
    \E r \in InnerListenResults :
        /\ s_last' = Called("listen", backlog, r, SocketFile_listen(sock, backlog, r))
        /\ UNCHANGED <<sock, peer, wvars, avars, tvars, vvars>>

Accept(nonblocking) ==
    \E r \in InnerAcceptResults :
        /\ s_last' = Called("accept", nonblocking, r, SocketFile_accept(sock, nonblocking, r))
        /\ UNCHANGED <<sock, peer, wvars, avars, tvars, vvars>>

ShutdownCall(how) ==
    \E r \in InnerShutdownResults :
        /\ s_last' = Called("shutdown", how, r, SocketFile_shutdown(sock, how, r))
        /\ UNCHANGED <<sock, peer, wvars, avars, tvars, vvars>>

NextSocket ==
    \/ \E addr \in AnyAddr : Connect(addr)
    \/ \E backlog \in Backlogs : Listen(backlog)
    \/ \E nonblocking \in BOOLEAN : Accept(nonblocking)
    \/ \E how \in Shutdown : ShutdownCall(how)

(***************************************************************************)
(* The default PollableFile::readv and writev.                             *)
(***************************************************************************)
\* What the file's scalar read (write) may answer for a buffer of len bytes.
ScalarResults(len) == {OkOf(n) : n \in 0..len} \cup {Err("EAGAIN"), Err("EBADF")}

\* Every answer a scalar call on some buffer may give.
AllScalarResults == ScalarResults(MaxBufLen)

\* The outcome of a vectored call: its result and the scalar calls it made.
VecOutcome(r, calls) == [ret |-> r, calls |-> calls]

VecUsesFirstBuffer(bufs, i, r) ==
    IF i > Len(bufs) THEN VecOutcome(OkOf(0), <<>>) ELSE VecOutcome(r, <<i>>)

\* The loop of readv / writev from buffer i on: the first buffer of non-zero
\* length is passed to the scalar call, whose answer r is returned; Ok(0)
\* after the loop.
RECURSIVE PollableFile_vectored(_, _, _)
PollableFile_vectored(bufs, i, r) ==
    IF i > Len(bufs) THEN VecOutcome(OkOf(0), <<>>)
    ELSE IF bufs[i] > 0 THEN VecOutcome(r, <<i>>)
    ELSE PollableFile_vectored(bufs, i + 1, r)

PollableFile_readv(bufs, r) == PollableFile_vectored(bufs, 1, r)
PollableFile_writev(bufs, r) == PollableFile_vectored(bufs, 1, r)

NoVecCall == [op |-> "none", given |-> OkOf(0), ret |-> OkOf(0), calls |-> <<>>]

VecInit ==
    /\ v_bufs = <<>>
    /\ v_last = NoVecCall

\* r is an answer the file can give for the buffer the loop passes to the
\* scalar call; when no call is made nothing is answered (r is Ok(0)).
Fits(bufs, r, out) ==
    IF out.calls = <<>> THEN r = OkOf(0) ELSE r \in ScalarResults(bufs[out.calls[1]])

Readv ==
    \E r \in AllScalarResults :
        LET out == PollableFile_readv(v_bufs, r) IN
          /\ Fits(v_bufs, r, out)
          /\ v_last' = [op |-> "readv", given |-> r, ret |-> out.ret, calls |-> out.calls]
          /\ UNCHANGED <<v_bufs, wvars, avars, tvars, svars>>

Writev ==
    \E r \in AllScalarResults :
        LET out == PollableFile_writev(v_bufs, r) IN
          /\ Fits(v_bufs, r, out)
          /\ v_last' = [op |-> "writev", given |-> r, ret |-> out.ret, calls |-> out.calls]
          /\ UNCHANGED <<v_bufs, wvars, avars, tvars, svars>>

NextVec == Readv \/ Writev

(***************************************************************************)
(* The pollable file and the Async wrapper.                                *)
(***************************************************************************)
\* Events: the two direction bits the wrapper uses.
Events_IN  == "IN"
Events_OUT == "OUT"
Events == {Events_IN, Events_OUT}

\* StatusFlags: the one flag the wrapper reads.
O_NONBLOCK == "O_NONBLOCK"
StatusFlags == {O_NONBLOCK}

\* Result<usize> of an inner I/O call.
EAGAIN == "EAGAIN"
OkResults  == {"Ok(0)", "Ok(8)"}
ErrResults == {EAGAIN, "EPIPE"}
Results == OkResults \cup ErrResults

Ops == {"read", "readv", "write", "writev"}

\* `let mask = Events::IN` in read and readv, `Events::OUT` in write and writev.
Mask(o) == IF o \in {"read", "readv"} THEN {Events_IN} ELSE {Events_OUT}

\* Async::is_nonblocking
is_nonblocking(status_flags) == O_NONBLOCK \in status_flags

\* Async::should_io_return
ReturnsUnlessWouldBlock(r, nb) == r # EAGAIN

ReturnsAlways(r, nb) == TRUE

ReturnsOnlyOk(r, nb) == nb \/ r \in OkResults

should_io_return(r, nb) == nb \/ r # EAGAIN


\* ---------------------------------------------------------------- Pollee
\* poll_by(mask, Some(poller)): the events returned.
Pollee_poll_by_ret(mask) == events \cap mask

\* poll_by(mask, Some(poller)): the subscriber list afterwards; the poller's
\* waiter is in the list at most once.
Pollee_poll_by_subs(mask, q) == {s \in subs : s[1] # q} \cup {<<q, mask>>}

\* The subscribers add_events(delta) / reset_events wakes: those whose
\* interest meets the added bits.
Interested(delta) == {s[1] : s \in {x \in subs : x[2] \cap delta # {}}}

\* Waker::wake on a waiter nobody else is operating on: lock, match, act.
Waker_wake(w) == WaiterInner_wake(w.state, w)

\* The Pollee wakes every subscriber in qs (under its mutex).
WakeAll(qs) ==
    /\ poller' = [t \in DOMAIN poller |->
                    IF t \in qs /\ IsSome(poller[t])
                    THEN Some(Waker_wake(Unwrap(poller[t]))) ELSE poller[t]]
    /\ sched' = [t \in DOMAIN sched |->
                    \/ sched[t]
                    \/ /\ t \in qs
                       /\ IsSome(poller[t])
                       /\ IsSome(WaiterInner_wake_invokes(Unwrap(poller[t]).state,
                                                          Unwrap(poller[t])))]

\* Poller's drop: remove the poller's waiter from the Pollee.
Poller_drop_subs(q) == {s \in subs : s[1] # q}


\* The results the inner file may give to the I/O call of operation o.
InnerResults(o) == UNION {inner[e] : e \in Mask(o)}

\* ------------------------------------------------------- Async::read etc.
\* Entry of Async::read / readv / write / writev: `is_nonblocking` is sampled.
Call(t, o) ==
    /\ pc[t] = "idle"
    /\ op' = [op EXCEPT ![t] = o]
    /\ entry_nb' = [entry_nb EXCEPT ![t] = (O_NONBLOCK \in flags)]
    /\ is_nb' = [is_nb EXCEPT ![t] = is_nonblocking(flags)]
    /\ pc' = [pc EXCEPT ![t] = "fast"]
    /\ UNCHANGED <<flags, events, subs, inner, res, ret, poller, sched,
                   ioCalls, npollers, suspended, lastEdge>>
    /\ UNCHANGED <<wvars, ovars>>

\* Fast path: one inner call; return, or create the Poller of the slow path.
FastPath(t) ==
    /\ pc[t] = "fast"
    /\ \E r \in InnerResults(op[t]) :
         /\ res' = [res EXCEPT ![t] = r]
         /\ ioCalls' = [ioCalls EXCEPT ![t] = 1]
         /\ IF should_io_return(r, is_nb[t])
            THEN /\ ret' = [ret EXCEPT ![t] = r]
                 /\ pc' = [pc EXCEPT ![t] = "done"]
                 /\ UNCHANGED <<poller, npollers>>
            ELSE /\ poller' = [poller EXCEPT ![t] = Some(WaiterInner_new)]
                 /\ npollers' = [npollers EXCEPT ![t] = npollers[t] + 1]
                 /\ pc' = [pc EXCEPT ![t] = "poll"]
                 /\ UNCHANGED ret
    /\ UNCHANGED <<flags, events, subs, inner, op, entry_nb, is_nb, sched,
                   suspended, lastEdge>>
    /\ UNCHANGED <<wvars, ovars>>

PollByWithoutPoller(t) ==
    /\ pc[t] = "poll"
    /\ pc' = [pc EXCEPT ![t] =
                IF Mask(op[t]) \subseteq Pollee_poll_by_ret(Mask(op[t]))
                THEN "retry" ELSE "wait"]
    /\ lastEdge' = {}
    /\ UNCHANGED <<flags, events, subs, inner, op, entry_nb, is_nb, res, ret,
                   poller, sched, ioCalls, npollers, suspended>>
    /\ UNCHANGED <<wvars, ovars>>

\* Top of the loop: poll_by(mask, Some(&mut poller)) subscribes the poller and
\* returns the current events; the retry follows only if they contain the mask.
PollBy(t) ==
    /\ pc[t] = "poll"
    /\ subs' = Pollee_poll_by_subs(Mask(op[t]), t)
    /\ pc' = [pc EXCEPT ![t] =
                IF Mask(op[t]) \subseteq Pollee_poll_by_ret(Mask(op[t]))
                THEN "retry" ELSE "wait"]
    /\ lastEdge' = {}
    /\ UNCHANGED <<flags, events, inner, op, entry_nb, is_nb, res, ret,
                   poller, sched, ioCalls, npollers, suspended>>
    /\ UNCHANGED <<wvars, ovars>>

RetryResamplesFlags(t) ==
    /\ pc[t] = "retry"
    /\ ioCalls[t] < MaxIoCalls
    /\ \E r \in InnerResults(op[t]) :
         /\ res' = [res EXCEPT ![t] = r]
         /\ ioCalls' = [ioCalls EXCEPT ![t] = ioCalls[t] + 1]
         /\ IF should_io_return(r, is_nonblocking(flags))
            THEN /\ ret' = [ret EXCEPT ![t] = r]
                 /\ pc' = [pc EXCEPT ![t] = "done"]
                 /\ poller' = [poller EXCEPT ![t] = None]
                 /\ subs' = Poller_drop_subs(t)
                 /\ lastEdge' = {}
            ELSE /\ pc' = [pc EXCEPT ![t] = "wait"]
                 /\ UNCHANGED <<ret, poller, subs, lastEdge>>
    /\ UNCHANGED <<flags, events, inner, op, entry_nb, is_nb, sched,
                   npollers, suspended>>
    /\ UNCHANGED <<wvars, ovars>>

\* The inner call of a loop iteration; on return the local poller is dropped.
Retry(t) ==
    /\ pc[t] = "retry"
    /\ ioCalls[t] < MaxIoCalls
    /\ \E r \in InnerResults(op[t]) :
         /\ res' = [res EXCEPT ![t] = r]
         /\ ioCalls' = [ioCalls EXCEPT ![t] = ioCalls[t] + 1]
         /\ IF should_io_return(r, is_nb[t])
            THEN /\ ret' = [ret EXCEPT ![t] = r]
                 /\ pc' = [pc EXCEPT ![t] = "done"]
                 /\ poller' = [poller EXCEPT ![t] = None]
                 /\ subs' = Poller_drop_subs(t)
                 /\ lastEdge' = {}
            ELSE /\ pc' = [pc EXCEPT ![t] = "wait"]
                 /\ UNCHANGED <<ret, poller, subs, lastEdge>>
    /\ UNCHANGED <<flags, events, inner, op, entry_nb, is_nb, sched,
                   npollers, suspended>>
    /\ UNCHANGED <<wvars, ovars>>

\* poller.wait().await, first poll: the WaitFuture of the poller's waiter is
\* created and polled with the task's waker; Ready drops it and loops.
Wait(t) ==
    /\ pc[t] = "wait"
    /\ LET w == Unwrap(poller[t]) IN
         IF WaitFuture_poll_ret(w) = Ready
         THEN /\ poller' = [poller EXCEPT ![t] =
                              Some(WaitFuture_drop(WaitFuture_poll(w, t)))]
              /\ pc' = [pc EXCEPT ![t] = "poll"]
              /\ UNCHANGED suspended
         ELSE /\ poller' = [poller EXCEPT ![t] = Some(WaitFuture_poll(w, t))]
              /\ pc' = [pc EXCEPT ![t] = "suspended"]
              /\ suspended' = [suspended EXCEPT ![t] = TRUE]
    /\ UNCHANGED <<flags, events, subs, inner, op, entry_nb, is_nb, res, ret,
                   sched, ioCalls, npollers, lastEdge>>
    /\ UNCHANGED <<wvars, ovars>>

\* The executor polls the task again after its runtime waker was invoked: the
\* pending WaitFuture is polled; Ready drops it and the loop continues.
Resume(t) ==
    /\ pc[t] = "suspended"
    /\ sched[t]
    /\ sched' = [sched EXCEPT ![t] = FALSE]
    /\ LET w == Unwrap(poller[t]) IN
         IF WaitFuture_poll_ret(w) = Ready
         THEN /\ poller' = [poller EXCEPT ![t] =
                              Some(WaitFuture_drop(WaitFuture_poll(w, t)))]
              /\ pc' = [pc EXCEPT ![t] = "poll"]
         ELSE /\ poller' = [poller EXCEPT ![t] = Some(WaitFuture_poll(w, t))]
              /\ UNCHANGED pc
    /\ UNCHANGED <<flags, events, subs, inner, op, entry_nb, is_nb, res, ret,
                   ioCalls, npollers, suspended, lastEdge>>
    /\ UNCHANGED <<wvars, ovars>>

\* The caller drops the future of the call while it is suspended: the pending
\* WaitFuture is dropped, then the local poller.
CancelLeaksPoller(t) ==
    /\ pc[t] = "suspended"
    /\ poller' = [poller EXCEPT ![t] = Some(WaitFuture_drop(Unwrap(poller[t])))]
    /\ pc' = [pc EXCEPT ![t] = "cancelled"]
    /\ UNCHANGED <<flags, events, subs, inner, op, entry_nb, is_nb, res, ret,
                   sched, ioCalls, npollers, suspended, lastEdge>>
    /\ UNCHANGED <<wvars, ovars>>

Cancel(t) ==
    /\ pc[t] = "suspended"
    /\ poller' = [poller EXCEPT ![t] = None]
    /\ subs' = Poller_drop_subs(t)
    /\ pc' = [pc EXCEPT ![t] = "cancelled"]
    /\ lastEdge' = {}
    /\ UNCHANGED <<flags, events, inner, op, entry_nb, is_nb, res, ret,
                   sched, ioCalls, npollers, suspended>>
    /\ UNCHANGED <<wvars, ovars>>

\* The caller is done with a returned or cancelled call and may call again.
Finish(t) ==
    /\ pc[t] \in {"done", "cancelled"}
    /\ pc' = [pc EXCEPT ![t] = "idle"]
    /\ op' = [op EXCEPT ![t] = "-"]
    /\ entry_nb' = [entry_nb EXCEPT ![t] = FALSE]
    /\ is_nb' = [is_nb EXCEPT ![t] = FALSE]
    /\ res' = [res EXCEPT ![t] = "-"]
    /\ ret' = [ret EXCEPT ![t] = "-"]
    /\ sched' = [sched EXCEPT ![t] = FALSE]
    /\ ioCalls' = [ioCalls EXCEPT ![t] = 0]
    /\ npollers' = [npollers EXCEPT ![t] = 0]
    /\ suspended' = [suspended EXCEPT ![t] = FALSE]
    /\ UNCHANGED <<flags, events, subs, inner, poller, lastEdge>>
    /\ UNCHANGED <<wvars, ovars>>

\* ------------------------------------------------------- the environment
\* set_status_flags by any holder of the file.
SetStatusFlags(new_status) ==
    /\ new_status # flags
    /\ flags' = new_status
    /\ UNCHANGED <<events, subs, inner, pc, op, entry_nb, is_nb, res, ret,
                   poller, sched, ioCalls, npollers, suspended, lastEdge>>
    /\ UNCHANGED <<wvars, ovars>>

\* Pollee::add_events(delta): the mask gains delta and every interested
\* subscriber is woken; the subscriptions stay.
AddEvents(delta) ==
    /\ events' = events \cup delta
    /\ WakeAll(Interested(delta))
    /\ lastEdge' = Interested(delta)
    /\ UNCHANGED <<flags, subs, inner, pc, op, entry_nb, is_nb, res, ret,
                   ioCalls, npollers, suspended>>
    /\ UNCHANGED <<wvars, ovars>>

\* Pollee::del_events(delta): no wake-ups.
DelEvents(delta) ==
    /\ events \cap delta # {}
    /\ events' = events \ delta
    /\ lastEdge' = {}
    /\ UNCHANGED <<flags, subs, inner, pc, op, entry_nb, is_nb, res, ret,
                   poller, sched, ioCalls, npollers, suspended>>
    /\ UNCHANGED <<wvars, ovars>>

\* Pollee::reset_events(new_mask): the subscribers interested in the newly
\* added bits are woken.
ResetEvents(new_mask) ==
    /\ new_mask # events
    /\ events' = new_mask
    /\ WakeAll(Interested(new_mask \ events))
    /\ lastEdge' = {}
    /\ UNCHANGED <<flags, subs, inner, pc, op, entry_nb, is_nb, res, ret,
                   ioCalls, npollers, suspended>>
    /\ UNCHANGED <<wvars, ovars>>

AsyncInit ==
    /\ flags \in SUBSET StatusFlags
    /\ events = {}
    /\ subs = {}
    /\ pc = [t \in Tasks |-> "idle"]
    /\ op = [t \in Tasks |-> "-"]
    /\ entry_nb = [t \in Tasks |-> FALSE]
    /\ is_nb = [t \in Tasks |-> FALSE]
    /\ res = [t \in Tasks |-> "-"]
    /\ ret = [t \in Tasks |-> "-"]
    /\ poller = [t \in Tasks |-> None]
    /\ sched = [t \in Tasks |-> FALSE]
    /\ ioCalls = [t \in Tasks |-> 0]
    /\ npollers = [t \in Tasks |-> 0]
    /\ suspended = [t \in Tasks |-> FALSE]
    /\ lastEdge = {}

(***************************************************************************)
(* Spec: the Async wrapper over a file that may answer an I/O call with any *)
(* result, in an environment that mutates the Pollee and the status flags.  *)
(***************************************************************************)
Init ==
    /\ AsyncInit
    /\ inner = [e \in Events |-> Results]
    /\ WaiterInit
    /\ TimeoutInit
    /\ VecInit
    /\ SocketInit

Next ==
    \/ \E t \in Tasks, o \in Ops : Call(t, o)
    \/ \E t \in Tasks : FastPath(t)
    \/ \E t \in Tasks : PollBy(t)
    \/ \E t \in Tasks : Retry(t)
    \/ \E t \in Tasks : Wait(t)
    \/ \E t \in Tasks : Resume(t)
    \/ \E t \in Tasks : Cancel(t)
    \/ \E t \in Tasks : Finish(t)
    \/ \E f \in SUBSET StatusFlags : SetStatusFlags(f)
    \/ \E delta \in (SUBSET Events) \ {{}} : AddEvents(delta)
    \/ \E delta \in (SUBSET Events) \ {{}} : DelEvents(delta)
    \/ \E m \in SUBSET Events : ResetEvents(m)

Spec == Init /\ [][Next]_vars

(***************************************************************************)
(* SpecWaiter: one Waiter under every interleaving of its operations.      *)
(***************************************************************************)
InitWaiter ==
    /\ WaiterInit
    /\ TimeoutInit
    /\ VecInit
    /\ SocketInit
    /\ AsyncInit
    /\ flags = {}
    /\ inner = [e \in Events |-> Results]

SpecWaiter == InitWaiter /\ [][WaiterNext]_vars

(***************************************************************************)
(* SpecLive: the readiness-edge scenario.  The file answers would-block    *)
(* until data (or room) arrives; the arrival is followed by add_events.    *)
(* The tasks are run by a fair cooperative scheduler.                      *)
(***************************************************************************)
Arrive(e) ==
    /\ inner[e] = {EAGAIN}
    /\ inner' = [inner EXCEPT ![e] = {"Ok(8)"}]
    /\ UNCHANGED <<flags, events, subs, pc, op, entry_nb, is_nb, res, ret,
                   poller, sched, ioCalls, npollers, suspended, lastEdge>>
    /\ UNCHANGED <<wvars, ovars>>

Edge(e) ==
    /\ EAGAIN \notin inner[e]
    /\ e \notin events
    /\ AddEvents({e})

InitLive ==
    /\ AsyncInit
    /\ inner = [e \in Events |-> {EAGAIN}]
    /\ WaiterInit
    /\ TimeoutInit
    /\ VecInit
    /\ SocketInit

TaskStep(t) == FastPath(t) \/ PollBy(t) \/ Retry(t) \/ Wait(t) \/ Resume(t)

NextLive ==
    \/ \E t \in Tasks, o \in Ops : Call(t, o)
    \/ \E t \in Tasks : FastPath(t)
    \/ \E t \in Tasks : PollBy(t)
    \/ \E t \in Tasks : Retry(t)
    \/ \E t \in Tasks : Wait(t)
    \/ \E t \in Tasks : Resume(t)
    \/ \E e \in Events : Arrive(e)
    \/ \E e \in Events : Edge(e)

SpecLive == InitLive /\ [][NextLive]_vars /\ \A t \in Tasks : WF_vars(TaskStep(t))

(***************************************************************************)
(* SpecPollee: one Pollee and the Pollers subscribing to it.               *)
(***************************************************************************)
\* Poller::new allocates a fresh Waiter.
Poller_new(q) ==
    /\ pc[q] = "idle"
    /\ poller' = [poller EXCEPT ![q] = Some(WaiterInner_new)]
    /\ pc' = [pc EXCEPT ![q] = "poll"]
    /\ sched' = [sched EXCEPT ![q] = FALSE]
    /\ UNCHANGED <<flags, events, subs, inner, op, entry_nb, is_nb, res, ret,
                   ioCalls, npollers, suspended, lastEdge>>
    /\ UNCHANGED <<wvars, ovars>>

\* Pollee::poll_by(mask, Some(q)).
Pollee_poll_by(q, mask) ==
    /\ pc[q] = "poll"
    /\ subs' = Pollee_poll_by_subs(mask, q)
    /\ lastEdge' = {}
    /\ UNCHANGED <<flags, events, inner, pc, op, entry_nb, is_nb, res, ret,
                   poller, sched, ioCalls, npollers, suspended>>
    /\ UNCHANGED <<wvars, ovars>>

\* Poller::wait: the WaitFuture of the embedded Waiter, polled by the owner
\* (first poll, or the poll after its runtime waker was invoked).
Poller_wait(q) ==
    /\ \/ pc[q] = "poll"
       \/ pc[q] = "suspended" /\ sched[q]
    /\ sched' = [sched EXCEPT ![q] = FALSE]
    /\ LET w == Unwrap(poller[q]) IN
         IF WaitFuture_poll_ret(w) = Ready
         THEN /\ poller' = [poller EXCEPT ![q] =
                              Some(WaitFuture_drop(WaitFuture_poll(w, q)))]
              /\ pc' = [pc EXCEPT ![q] = "poll"]
         ELSE /\ poller' = [poller EXCEPT ![q] = Some(WaitFuture_poll(w, q))]
              /\ pc' = [pc EXCEPT ![q] = "suspended"]
    /\ UNCHANGED <<flags, events, subs, inner, op, entry_nb, is_nb, res, ret,
                   ioCalls, npollers, suspended, lastEdge>>
    /\ UNCHANGED <<wvars, ovars>>

\* Drop of the Poller (and of its pending WaitFuture, if any).
Poller_drop(q) ==
    /\ pc[q] \in {"poll", "suspended"}
    /\ poller' = [poller EXCEPT ![q] = None]
    /\ subs' = Poller_drop_subs(q)
    /\ pc' = [pc EXCEPT ![q] = "idle"]
    /\ lastEdge' = {}
    /\ UNCHANGED <<flags, events, inner, op, entry_nb, is_nb, res, ret,
                   sched, ioCalls, npollers, suspended>>
    /\ UNCHANGED <<wvars, ovars>>

InitPollee ==
    /\ WaiterInit
    /\ TimeoutInit
    /\ VecInit
    /\ SocketInit
    /\ flags = {}
    /\ events \in SUBSET Events
    /\ subs = {}
    /\ inner = [e \in Events |-> Results]
    /\ pc = [q \in Pollers |-> "idle"]
    /\ poller = [q \in Pollers |-> None]
    /\ sched = [q \in Pollers |-> FALSE]
    /\ op = [t \in Tasks |-> "-"]
    /\ entry_nb = [t \in Tasks |-> FALSE]
    /\ is_nb = [t \in Tasks |-> FALSE]
    /\ res = [t \in Tasks |-> "-"]
    /\ ret = [t \in Tasks |-> "-"]
    /\ ioCalls = [t \in Tasks |-> 0]
    /\ npollers = [t \in Tasks |-> 0]
    /\ suspended = [t \in Tasks |-> FALSE]
    /\ lastEdge = {}

NextPollee ==
    \/ \E q \in Pollers : Poller_new(q)
    \/ \E q \in Pollers, mask \in (SUBSET Events) \ {{}} : Pollee_poll_by(q, mask)
    \/ \E q \in Pollers : Poller_wait(q)
    \/ \E q \in Pollers : Poller_drop(q)
    \/ \E delta \in (SUBSET Events) \ {{}} : AddEvents(delta)
    \/ \E delta \in (SUBSET Events) \ {{}} : DelEvents(delta)
    \/ \E m \in SUBSET Events : ResetEvents(m)

SpecPollee == InitPollee /\ [][NextPollee]_vars

(***************************************************************************)
(* SpecTimeout: wait_timeout calls on one Waiter, wakers on other threads, *)
(* time passing.  SpecTimeoutLive adds a fair executor and fair wakers.    *)
(***************************************************************************)
InitTimeout ==
    /\ WaiterInit
    /\ TimeoutInit
    /\ VecInit
    /\ SocketInit
    /\ AsyncInit
    /\ flags = {}
    /\ inner = [e \in Events |-> Results]

SpecTimeout == InitTimeout /\ [][NextTimeout]_vars

TimeoutStep == TimeoutPollWait \/ TimeoutPollTimer \/ TimeoutRepoll

SpecTimeoutLive ==
    /\ InitTimeout
    /\ [][NextTimeout]_vars
    /\ SF_vars(TimeoutStep)
    /\ \A k \in Wakers : WF_vars(WakeEnd(k))

(***************************************************************************)
(* SpecWaits: wait() and wait_timeout() calls on one Waiter, with wakers   *)
(* on other threads and reset() at any point.                              *)
(***************************************************************************)
NextWaits ==
    \/ NextTimeout
    \/ WaiterInner_wait(1)
    \/ Poll(1, 1)
    \/ Drop(1)
    \/ Reset

SpecWaits == InitTimeout /\ [][NextWaits]_vars

(***************************************************************************)
(* SpecSocket: a SocketFile of any of the four variants and the calls of   *)
(* its adapter, the inner socket answering in every way it may.            *)
(***************************************************************************)
InitSocket ==
    /\ WaiterInit
    /\ TimeoutInit
    /\ VecInit
    /\ AsyncInit
    /\ flags = {}
    /\ inner = [e \in Events |-> Results]
    /\ sock \in AnySocket
    /\ peer = None
    /\ s_last = NoCall

SpecSocket == InitSocket /\ [][NextSocket]_vars

(***************************************************************************)
(* SpecVec: the default readv / writev on every vector of up to MaxVecLen  *)
(* buffers of up to MaxBufLen bytes, the scalar call answering in every    *)
(* way it may.                                                             *)
(***************************************************************************)
BufVectors == UNION {[1..n -> 0..MaxBufLen] : n \in 0..MaxVecLen}

InitVec ==
    /\ WaiterInit
    /\ TimeoutInit
    /\ SocketInit
    /\ AsyncInit
    /\ flags = {}
    /\ inner = [e \in Events |-> Results]
    /\ v_bufs \in BufVectors
    /\ v_last = NoVecCall

SpecVec == InitVec /\ [][NextVec]_vars

TypeOK ==
    /\ waiter.state \in WaiterState
    /\ \A t \in DOMAIN pc :
         pc[t] \in {"idle", "fast", "poll", "retry", "wait", "suspended",
                    "done", "cancelled"}
    /\ events \subseteq Events
    /\ ioCalls \in [Tasks -> 0..MaxIoCalls]


(***************************************************************************)
(* Properties of the Async wrapper.                                        *)
(***************************************************************************)
SlowPath == {"poll", "retry", "wait", "suspended"}

\* C1: a call entered with O_NONBLOCK set makes exactly one inner I/O call,
\* never creates or subscribes a Poller, never suspends, and returns that
\* inner call's result, would-block included.
C1_NonblockingNeverSuspends ==
    \A t \in Tasks :
        entry_nb[t] =>
            /\ pc[t] \in {"fast", "done"}
            /\ npollers[t] = 0
            /\ poller[t] = None
            /\ \A s \in subs : s[1] # t
            /\ ~suspended[t]
            /\ pc[t] = "fast" => ioCalls[t] = 0
            /\ pc[t] = "done" => ioCalls[t] = 1 /\ ret[t] = res[t]

C1_Witness ==
    \E t \in Tasks : entry_nb[t] /\ pc[t] = "done" /\ ret[t] = EAGAIN

\* C2: a call entered with O_NONBLOCK clear never returns would-block; after
\* a would-block from the inner file the call is in its loop, not returned.
C2_BlockingNeverReturnsWouldBlock ==
    \A t \in Tasks :
        ~entry_nb[t] =>
            /\ pc[t] = "done" => ret[t] # EAGAIN /\ ret[t] = res[t]
            /\ res[t] = EAGAIN => pc[t] \in SlowPath \cup {"cancelled"}

C2_Witness ==
    \E t \in Tasks :
        /\ ~entry_nb[t]
        /\ pc[t] = "done"
        /\ suspended[t]
        /\ ioCalls[t] = MaxIoCalls
        /\ ret[t] \in OkResults

\* C3: no lost wakeup.  A blocking call whose fast path got would-block, on a
\* file whose Pollee has gained the call's direction bit with the inner call
\* now succeeding, eventually returns the successful result, wherever the
\* edge fell between the fast path, the subscription, the retry and the
\* suspension.
C3_NoLostWakeup ==
    \A t \in Tasks :
        (pc[t] \in SlowPath /\ Mask(op[t]) \subseteq events)
            ~> (pc[t] = "done" /\ ret[t] \in OkResults)

C3_Witness ==
    \E t \in Tasks :
        /\ pc[t] = "done"
        /\ suspended[t]
        /\ ~entry_nb[t]
        /\ ret[t] = "Ok(8)"
        /\ op[t] = "read"

C5_WakeIdempotent ==
    /\ [](invokedCount <= 1)
    /\ [][\A k \in Wakers :
            (WakeEnd(k) /\ wokenBy # "no") =>
                /\ lastOp'.ret = "None"
                /\ waiter' = waiter
                /\ invokedCount' = invokedCount
                /\ lastOp'.invoked = None]_vars

C5_Witness ==
    /\ wokenBy = Waiting
    /\ invokedCount = 1
    /\ lastOp.op = "wake"
    /\ lastOp.ret = "None"

\* C6: dropping a WaitFuture while the state is Waiting sets the state to
\* Idle and empties the raw-waker slot; a wake() after it, before any new
\* poll, invokes no runtime waker and sets an Idle waiter to Woken.
C6_DropWhileWaitingCleans ==
    [][/\ \A f \in Futures :
            (Drop(f) /\ waiter.state = Waiting) =>
                waiter' = [state |-> Idle, raw_waker |-> None]
       /\ \A k \in Wakers :
            (WakeEnd(k) /\ cancelled) =>
                /\ lastOp'.invoked = None
                /\ invokedCount' = invokedCount
                /\ wk_obs[k] = Idle => waiter'.state = Woken]_vars

C6_Witness ==
    /\ cancelled
    /\ lastOp.op = "wake"
    /\ lastOp.pre = Idle
    /\ lastOp.ret = "Some"
    /\ waiter = [state |-> Woken, raw_waker |-> None]

\* C7: in every reachable state the raw-waker slot is Some exactly when the
\* state is Waiting, and neither the assertion in WaitFuture::poll nor the
\* unwrap in wake has failed.
C7_SlotInvariant ==
    /\ IsSome(waiter.raw_waker) <=> waiter.state = Waiting
    /\ panicked = "none"

\* C8: a wake() that begins while a WaitFuture that returned Pending is alive
\* observes Waiting or Woken, never Idle.
C8_WakeAfterPendingSeesWaiting ==
    \A k \in Wakers :
        wk_obs[k] = Idle => \A f \in Futures : fut[f] # "pending"

(***************************************************************************)
(* Properties of the Pollee and of cancellation.                           *)
(***************************************************************************)
\* C9: add_events(delta) wakes the waiter of every subscriber whose mask
\* meets delta, within the same Pollee operation: afterwards each of them is
\* Woken, the runtime waker of each that was Waiting has been invoked, and
\* the subscriber list is unchanged.
C9_NoMissedEdge ==
    [][\A delta \in (SUBSET Events) \ {{}} :
         AddEvents(delta) =>
             /\ subs' = subs
             /\ \A s \in subs :
                  s[2] \cap delta # {} =>
                      /\ IsSome(poller[s[1]])
                      /\ Unwrap(poller'[s[1]]).state = Woken
                      /\ Unwrap(poller[s[1]]).state = Waiting => sched'[s[1]]]_vars

C9_Witness ==
    /\ lastEdge = Pollers
    /\ \A q \in Pollers :
         /\ pc[q] = "suspended"
         /\ sched[q]
         /\ Unwrap(poller[q]).state = Woken
         /\ \E s \in subs : s[1] = q

\* C10: after the future of an Async call is dropped while suspended, the
\* Pollee holds no subscription of the call's poller (no subscription ever
\* names a dropped poller), and nothing invokes the cancelled task's waker.
C10_CancelRemovesSubscriptions ==
    /\ [](\A t \in Tasks :
            pc[t] = "cancelled" => poller[t] = None /\ \A s \in subs : s[1] # t)
    /\ [](\A s \in subs : IsSome(poller[s[1]]))
    /\ [][\A t \in Tasks :
            (pc[t] = "cancelled" /\ pc'[t] = "cancelled") => sched'[t] = sched[t]]_vars

C10_Witness ==
    \E t \in Tasks :
        /\ pc[t] = "cancelled"
        /\ suspended[t]
        /\ ~sched[t]
        /\ subs = {}
        /\ Mask(op[t]) \subseteq events

\* C13: terminal results propagate.  Whenever the last inner I/O call of a
\* call in progress returned a success value or an error other than
\* would-block, the call has returned, its result is that value unchanged,
\* and the count of inner calls stands where that call left it.
C13_TerminalResultsPropagate ==
    /\ [](\A t \in Tasks :
            res[t] \in Results \ {EAGAIN} => pc[t] = "done" /\ ret[t] = res[t])
    /\ [][\A t \in Tasks :
            res[t] \in Results \ {EAGAIN} =>
                /\ ioCalls'[t] \in {ioCalls[t], 0}
                /\ pc'[t] \in {"done", "idle"}]_vars

C13_Witness ==
    \E t \in Tasks :
        /\ pc[t] = "done"
        /\ suspended[t]
        /\ ioCalls[t] = MaxIoCalls
        /\ res[t] = "EPIPE"
        /\ ret[t] = "EPIPE"

Subscribed(t) == \E s \in subs : s[1] = t

C17_NonblockSampledOnce ==
    /\ [](\A t \in Tasks :
            /\ is_nb[t] = entry_nb[t]
            /\ pc[t] \in SlowPath \cup {"cancelled"} => ~entry_nb[t]
            /\ (pc[t] = "done" /\ ret[t] = EAGAIN) => entry_nb[t]
            /\ (pc[t] = "done" /\ entry_nb[t]) => ioCalls[t] = 1)
    /\ [][\A t \in Tasks :
            (pc[t] # "idle" /\ pc'[t] # "idle") =>
                is_nb'[t] = is_nb[t] /\ entry_nb'[t] = entry_nb[t]]_vars

C17_Witness ==
    \E t \in Tasks :
        /\ pc[t] = "wait"
        /\ res[t] = EAGAIN
        /\ ioCalls[t] = MaxIoCalls
        /\ ~entry_nb[t]
        /\ O_NONBLOCK \in flags

\* C18: poll-then-retry order.  The fast-path inner call precedes any
\* subscription; an inner retry is entered only from poll_by, with the
\* poller subscribed and the events holding the direction bit; the call
\* suspends only from the wait that follows poll_by, with the poller
\* subscribed; an inner call is made only on the fast path or in a retry.
C18_PollThenRetryOrder ==
    /\ [](\A t \in Tasks :
            /\ pc[t] = "fast" => ioCalls[t] = 0 /\ ~Subscribed(t) /\ poller[t] = None
            /\ pc[t] \in {"retry", "wait", "suspended"} =>
                  <<t, Mask(op[t])>> \in subs)
    /\ [][\A t \in Tasks :
            /\ (pc'[t] = "retry" /\ pc[t] # "retry") =>
                  /\ pc[t] = "poll"
                  /\ Mask(op[t]) \subseteq events
                  /\ <<t, Mask(op[t])>> \in subs'
            /\ (pc'[t] = "wait" /\ pc[t] # "wait") =>
                  \/ pc[t] = "poll" /\ ~(Mask(op[t]) \subseteq events)
                  \/ pc[t] = "retry" /\ res'[t] = EAGAIN
            /\ (pc'[t] = "suspended" /\ pc[t] # "suspended") => pc[t] = "wait"
            /\ ioCalls'[t] > ioCalls[t] => pc[t] \in {"fast", "retry"}]_vars

C18_Witness ==
    \E t \in Tasks :
        /\ pc[t] = "suspended"
        /\ ioCalls[t] = MaxIoCalls
        /\ res[t] = EAGAIN
        /\ <<t, Mask(op[t])>> \in subs

(***************************************************************************)
(* Properties of the Waiter's state machine.                               *)
(***************************************************************************)
\* C19: every change of the Waiter's state is Idle to Waiting by a poll,
\* Waiting to Woken or Idle to Woken by a wake, Waiting to Idle by the drop
\* of a WaitFuture, or Woken to Idle by reset, and by that operation only.
C19_StateTransitions ==
    [][waiter'.state # waiter.state =>
         \/ waiter.state = Idle /\ waiter'.state = Waiting /\ lastOp'.op = "poll"
         \/ waiter.state = Waiting /\ waiter'.state = Woken /\ lastOp'.op = "wake"
         \/ waiter.state = Idle /\ waiter'.state = Woken /\ lastOp'.op = "wake"
         \/ waiter.state = Waiting /\ waiter'.state = Idle /\ lastOp'.op = "drop"
         \/ waiter.state = Woken /\ waiter'.state = Idle /\ lastOp'.op = "reset"]_vars

\* C20: a poll that finds the Waiter Waiting puts its own waker in the slot
\* and leaves the state Waiting; a wake that invokes a runtime waker invokes
\* the one of the latest Pending poll, empties the slot, and no wake invokes
\* it again: a wake that finds the state Waiting invokes one waker, a wake
\* that finds any other state invokes none.
C20_RepollReplacesWaker ==
    /\ [][\A f \in Futures, h \in Handles :
            (Poll(f, h) /\ waiter.state = Waiting) =>
                waiter' = [state |-> Waiting, raw_waker |-> Some(RawWaker(f, h))]]_vars
    /\ [][\A k \in Wakers :
            WakeEnd(k) =>
                /\ IsSome(lastOp'.invoked) <=> wk_obs[k] = Waiting
                /\ IsSome(lastOp'.invoked) =>
                      /\ lastOp'.invoked = polls.last
                      /\ waiter'.raw_waker = None
                      /\ invokedCount' = invokedCount + 1]_vars

C20_Witness ==
    /\ lastOp.op = "wake"
    /\ lastOp.invoked = Some(RawWaker(1, 2))
    /\ polls.prev = Some(RawWaker(1, 1))
    /\ waiter = [state |-> Woken, raw_waker |-> None]

(***************************************************************************)
(* Properties of wait_timeout.                                             *)
(***************************************************************************)
\* C11: a poll of wait_timeout that finds the Waiter Woken returns Ok, the
\* timer expired or not; ETIMEDOUT comes only from the timer arm, which is
\* reached only after the WaitFuture was polled in the same poll and
\* returned Pending.
C11_BiasedTowardWake ==
    /\ [][(TimeoutPollWait /\ waiter.state = Woken) => tw_pc' = "ok"]_vars
    /\ [][(tw_pc' = "timedout" /\ tw_pc # "timedout") => tw_pc = "timer"]_vars
    /\ [][(tw_pc' = "timer" /\ tw_pc # "timer") =>
            /\ tw_pc = "wait"
            /\ WaitFuture_poll_ret(waiter) = Pending
            /\ waiter'.state = Waiting]_vars

C11_Witness ==
    /\ tw_pc = "ok"
    /\ t_orig > 0
    /\ t_remain = 0
    /\ waiter.state = Woken

\* C12 (as stated): a call whose Waiter was woken before the timer expired
\* does not return ETIMEDOUT.
C12_WokenBeforeExpiryReturnsOk ==
    tw_pc = "timedout" => ~t_early

\* C12 (amended): the call ends in one of two ways.  ETIMEDOUT: the timer has
\* expired and the duration is zero.  Ok: the Waiter is Woken and the
\* duration is the timer's remaining duration, at most d.  The duration is
\* written once, at the return.  A call in progress whose timer has expired
\* returns.  A wake that lands between the WaitFuture's poll and the timer's
\* poll of one poll does not turn ETIMEDOUT into Ok.
C12_TimeoutOutcome ==
    /\ [](tw_pc = "timedout" => t_remain = 0 /\ t_dur = 0 /\ t_writes = 1)
    /\ [](tw_pc = "ok" =>
            /\ waiter.state = Woken
            /\ t_dur = t_remain
            /\ t_dur <= t_orig
            /\ t_writes = 1)
    /\ [](tw_pc \in InCall => t_dur = t_orig /\ t_writes = 0)
    /\ [][(tw_pc' = "timedout" /\ tw_pc # "timedout") => waiter.state # Idle]_vars
    /\ ((tw_pc \in InCall /\ t_remain = 0) ~> (tw_pc \in {"ok", "timedout"}))

C12_Witness ==
    /\ tw_pc = "timedout"
    /\ t_orig > 0
    /\ t_early
    /\ waiter.state = Woken

(***************************************************************************)
(* Properties of the SocketFile adapter.                                   *)
(***************************************************************************)
Datagrams == {Ipv4Datagram, UnixDatagram}
Streams == {Ipv4Stream, UnixStream}

\* C14: on a datagram variant listen, accept and shutdown return EINVAL and
\* make no call on the inner socket; on a stream variant each makes the same
\* call, with the same argument, on the inner stream socket and returns its
\* result (accept: the accepted stream wrapped in a SocketFile of the same
\* variant, or the inner error).
C14_StreamOnlyOperations ==
    s_last.op \in {"listen", "accept", "shutdown"} =>
        /\ sock \in Datagrams => s_last.ret = Err(EINVAL) /\ s_last.inner = None
        /\ sock \in Streams =>
              /\ s_last.inner = Some(<<sock, s_last.op, s_last.arg>>)
              /\ s_last.op \in {"listen", "shutdown"} => s_last.ret = s_last.given
              /\ s_last.op = "accept" =>
                    s_last.ret = IF IsOk(s_last.given)
                                 THEN OkOf(<<sock, s_last.given[2]>>)
                                 ELSE s_last.given

C14_Witness ==
    /\ sock = UnixDatagram
    /\ s_last.op = "shutdown"
    /\ s_last.ret = Err(EINVAL)
    /\ s_last.inner = None

\* C15: connect with the unspecified address.  On a datagram variant the
\* inner datagram's connect is called with no address and its result is
\* returned; on a stream variant an error is returned and the inner
\* stream's connect is not called.
C15_ConnectUnspecified ==
    (s_last.op = "connect" /\ s_last.arg = Unspec) =>
        /\ sock \in Datagrams =>
              /\ s_last.inner = Some(<<sock, "connect", None>>)
              /\ s_last.ret = s_last.given
        /\ sock \in Streams => ~IsOk(s_last.ret) /\ s_last.inner = None

C15_Witness ==
    /\ sock = Ipv4Datagram
    /\ s_last.op = "connect"
    /\ s_last.arg = Unspec
    /\ s_last.ret = OkOf("()")
    /\ s_last.inner = Some(<<Ipv4Datagram, "connect", None>>)
    /\ peer = None

(***************************************************************************)
(* Properties of the default vectored I/O.                                 *)
(***************************************************************************)
NonEmpty(bufs) == {i \in 1..Len(bufs) : bufs[i] > 0}

\* C21: the default readv (writev) makes at most one scalar read (write)
\* call.  If some buffer has a non-zero length the call is made on the first
\* such buffer in vector order and its result, error or not, is returned
\* unchanged; if the vector is empty or all its buffers are empty, no call is
\* made and the result is Ok(0).
C21_VectoredFallback ==
    v_last.op \in {"readv", "writev"} =>
        /\ Len(v_last.calls) <= 1
        /\ NonEmpty(v_bufs) # {} =>
              /\ Len(v_last.calls) = 1
              /\ v_last.calls[1] \in NonEmpty(v_bufs)
              /\ \A j \in NonEmpty(v_bufs) : v_last.calls[1] <= j
              /\ v_last.ret = v_last.given
        /\ NonEmpty(v_bufs) = {} =>
              /\ v_last.calls = <<>>
              /\ v_last.ret = OkOf(0)

C21_Witness ==
    /\ v_last.op = "readv"
    /\ Len(v_bufs) = MaxVecLen
    /\ v_bufs[1] = 0
    /\ v_bufs[2] > 0
    /\ v_last.calls = <<2>>
    /\ v_last.ret = Err("EBADF")

(***************************************************************************)
(* Properties of the Waiter after a timeout and after a wake.              *)
(***************************************************************************)
\* C22: when wait_timeout returns ETIMEDOUT the Waiter is left Idle, or Woken
\* if a wake raced with the expiry, and its raw-waker slot is empty.
C22_CleanAfterTimeout ==
    [][(tw_pc' = "timedout" /\ tw_pc # "timedout") =>
          /\ waiter'.state \in {Idle, Woken}
          /\ waiter'.raw_waker = None]_vars

====
